---------------------------- MODULE Spec2Model ----------------------------
(***************************************************************************)
(* A model of src/src/DMA_APS_inversion_tools.py: the DMA class (voltage   *)
(* handling, response-matrix construction, forward convolution, Tikhonov   *)
(* deconvolution, the regularization search) and the module-level bisect.  *)
(*                                                                         *)
(* The program is single-threaded; every public operation is one action.   *)
(* Only the regularization search is split into steps, because its         *)
(* objective is a callback the optimizer invokes repeatedly.               *)
(*                                                                         *)
(* Numbers.  Python floats are modelled by exact integers in fixed-point   *)
(* units that are stated where each quantity is introduced.                *)
(***************************************************************************)
EXTENDS Integers, Sequences, FiniteSets

VARIABLES
    dma,      \* the fields of the DMA object (self.*)
    call,     \* what the last completed call did, as its caller sees it
    search,   \* the regularization search in progress (Find_optimum_alpha)
    history,  \* what the searches that did not converge handed to their callers
    bis       \* the frame of bisect(func, low, high)

vars == <<dma, call, search, history, bis>>

\* ------------------------------------------------------------ helpers

Max(a, b) == IF a >= b THEN a ELSE b

Abs(a) == IF a >= 0 THEN a ELSE -a

\* int(x) of a quotient: C truncation toward zero, as numpy casts float to int.
TruncDiv(a, b) == IF a >= 0 THEN a \div b ELSE -((-a) \div b)

\* Values of variables no operation of the running scenario touches.
NoArray == [dtype |-> "float", v |-> <<>>]

NoAlpha == [p |-> 0, q |-> 1]

NoSearch == [pc |-> "idle", argR |-> NoArray, argA |-> <<>>, x0 |-> NoAlpha, evals |-> <<>>,
             res |-> [x |-> NoAlpha, success |-> TRUE]]

NoCall == [op |-> "none", arg |-> <<>>, raised |-> "none", printed |-> "", ret |-> <<>>]

NoBisect == [pc |-> "idle", func |-> <<>>, low |-> 0, high |-> 0, low0 |-> 0,
             high0 |-> 0, midpoint |-> -1, i |-> 0]

\* ------------------------------------------------- DMA: voltage handling
\* Voltages are in millivolts, so that the bounds of v_range are integers.

\* self.v_range = np.array([0.998e+0, 1.0001e+04])
VLo == 998

VHi == 10001000

\* 1.66667e-5 (L/min to m^3/s), in the fixed-point unit of the mobility
LpmToM3s == 50000000

\* 4*np.pi, rounded to an integer
FourPi == 12

\* Zp when the denominator 4*pi*A*V is 0: numpy's float64 division gives inf.
PosInf == 2000000000

Models == {"nano", "long"}

SheathFlows == {10, 15}

\* Voltages a caller may pass: below, at, inside, at and above the domain.
VoltageInputs == {-1000, 0, 997, 998, 999, 5000000, 10001000, 10001001, 20000000}

MaxCharge == 2

\* Charge_limit, a positive integer
ChargeLimits == 1..MaxCharge

\* Load_parameters_model and self.A = self.L/np.log(self.R2/self.R1), in units
\* of 0.1 m: nano 0.0703, long 0.6008.
GeomA(model) == IF model = "nano" THEN 1 ELSE 6

\* Calculate_Zp: (2*flow_sheath)*(1.66667e-5)/(4*pi*A*voltage)
Calculate_Zp(d, voltage) ==
    IF FourPi * d.A * voltage = 0
    THEN PosInf
    ELSE ((2 * d.flow_sheath) * LpmToM3s) \div (FourPi * d.A * voltage)

DMA_props == [model : Models, flow_sheath : SheathFlows,
              Voltage : VoltageInputs, Charge_limit : ChargeLimits]

\* The object Reset_DMA leaves: every field is overwritten from DMA_props, the
\* voltage is stored as given and the mobility computed from it.  Attributes
\* Reset_DMA does not touch (A_mat, R) keep their value.
ResetFields(old, p) ==
    LET d0 == [old EXCEPT !.model = p.model, !.flow_sheath = p.flow_sheath,
                          !.A = GeomA(p.model), !.V = p.Voltage,
                          !.Charge_limit = p.Charge_limit]
    IN [d0 EXCEPT !.Zp = Calculate_Zp(d0, p.Voltage)]

\* The configuration of the spec's end-to-end scenario: a "nano" geometry with
\* sheath flow 15 L/min, at a voltage inside the domain.
NanoProps(limit) == [model |-> "nano", flow_sheath |-> 15, Voltage |-> 5000000,
                     Charge_limit |-> limit]

Unconfigured == [model |-> "nano", flow_sheath |-> 0, A |-> 0, V |-> 0, Zp |-> 0,
                 Charge_limit |-> 0, A_mat |-> <<>>, R |-> NoArray]

InRange(d, v) == v >= VLo /\ v <= VHi

\* The fields Update_voltage leaves.
UpdatedFields(d, new_V) ==
    IF InRange(d, new_V)
    THEN [d EXCEPT !.V = new_V, !.Zp = Calculate_Zp(d, new_V)]
    ELSE [d EXCEPT !.V = 0, !.Zp = 0]

\* What Update_voltage writes to stdout.
UpdatePrinted(d, new_V) ==
    IF InRange(d, new_V) THEN "" ELSE "Error: voltage out of range for this DMA"

Reset_DMA(p) ==
    /\ dma' = ResetFields(dma, p)
    /\ call' = [NoCall EXCEPT !.op = "Reset_DMA", !.arg = <<p.Voltage>>]
    /\ UNCHANGED <<search, history, bis>>

\* Update_voltage returns None on both branches and raises nothing.
Update_voltage(new_V) ==
    /\ dma' = UpdatedFields(dma, new_V)
    /\ call' = [NoCall EXCEPT !.op = "Update_voltage", !.arg = <<new_V>>,
                              !.printed = UpdatePrinted(dma, new_V)]
    /\ UNCHANGED <<search, history, bis>>

\* DMA.__init__(DMA_props) is Reset_DMA on a fresh object.
InitDMA ==
    /\ \E p \in DMA_props :
          /\ dma = ResetFields(Unconfigured, p)
          /\ call = [NoCall EXCEPT !.op = "__init__", !.arg = <<p.Voltage>>]
    /\ search = NoSearch
    /\ history = {}
    /\ bis = NoBisect

NextDMA ==
    \/ \E p \in DMA_props : Reset_DMA(p)
    \/ \E v \in VoltageInputs : Update_voltage(v)

SpecDMA == InitDMA /\ [][NextDMA]_vars

\* C1: Update_voltage(v) fails with an OutOfRangeVoltage error surfaced to the
\* caller, leaving V = 0 and Zp = 0, when v is outside v_range; and for v
\* inside it leaves V = v and Zp = Calculate_Zp(v).
C1_UpdateVoltageRejectsWithError ==
    call.op = "Update_voltage" =>
        LET v == call.arg[1]
        IN IF v < VLo \/ v > VHi
           THEN call.raised = "OutOfRangeVoltage" /\ dma.V = 0 /\ dma.Zp = 0
           ELSE call.raised = "none" /\ dma.V = v /\ dma.Zp = Calculate_Zp(dma, v)

\* C2: in every state reachable by configuration followed by Update_voltage
\* calls, either V lies in v_range and Zp = Calculate_Zp(V), or V = 0 and Zp = 0.
C2_VoltageOnlyThroughValidation ==
    \/ dma.V >= VLo /\ dma.V <= VHi /\ dma.Zp = Calculate_Zp(dma, dma.V)
    \/ dma.V = 0 /\ dma.Zp = 0

\* --------------------------------------------- Transfer_function_Tf: floor
\* The transfer function is built from np.exp, math.erf and the friction of the
\* external Aerosol_tools module; their results are inputs here.  A call's
\* environment e gives coef = sigma/(sqrt(2)*beta) > 0 and the three erf_func
\* results e1, e2, e3 as the floating-point library returned them.  Values of
\* the transfer function are in units of 0.5e-60, so that a positive value
\* below the floor exists.

\* the floor 1e-60 of np.max([tf,1e-60])
Floor == 2

MaxEps == 2

MaxCoef == 2

TfEnv == [coef : 1..MaxCoef, e1 : 0..MaxEps, e2 : 0..MaxEps, e3 : 0..MaxEps]

DpVals == {20, 100}

VoltVals == {998, 5000000}

\* tf = sigma/(np.sqrt(2)*beta)*(erf_func(..(1+beta)..) + erf_func(..(1-beta)..)
\*                               - 2*erf_func(..1..))
Unfloored(e) == e.coef * (e.e1 + e.e2 - 2 * e.e3)

\* A plausible slip: the floor applied with np.min.
Transfer_function_Tf_min(e) == IF Unfloored(e) <= Floor THEN Unfloored(e) ELSE Floor

\* return np.max([tf,1e-60])
Transfer_function_Tf(e) == Max(Unfloored(e), Floor)

CallTf(Dp, voltage, charge, e) ==
    /\ call' = [NoCall EXCEPT !.op = "Transfer_function_Tf",
                              !.arg = <<Dp, voltage, charge, e>>,
                              !.ret = <<Transfer_function_Tf(e)>>]
    /\ UNCHANGED <<dma, search, history, bis>>

InitTf ==
    /\ dma = ResetFields(Unconfigured, NanoProps(MaxCharge))
    /\ call = NoCall
    /\ search = NoSearch
    /\ history = {}
    /\ bis = NoBisect

NextTf ==
    \E Dp \in DpVals, voltage \in VoltVals, charge \in 1..MaxCharge, e \in TfEnv :
        CallTf(Dp, voltage, charge, e)

SpecTf == InitTf /\ [][NextTf]_vars

\* C6: Transfer_function_Tf returns at least the floor 1e-60, whatever the
\* sign or size of the unfloored expression.
C6_TransferFunctionFloored ==
    call.op = "Transfer_function_Tf" => call.ret[1] >= Floor

\* A call whose unfloored expression cancels to a negative value has returned
\* the floor.
C6_Witness ==
    /\ call.op = "Transfer_function_Tf"
    /\ Unfloored(call.arg[4]) < 0
    /\ call.ret[1] = Floor

\* ------------------------------------------------ the response matrix
\* The three efficiencies are values of transcendental functions of the
\* external friction model.  An entry of the matrix is kept as the expression
\* the code evaluates: the sequence, in the order of the additions, of the
\* products added to the zero np.zeros put there; each factor names the
\* function called and its arguments.

MaxN == 2

Factor(f, Dp, voltage, charge) == [f |-> f, Dp |-> Dp, V |-> voltage, charge |-> charge]

\* Tl = self.Penetration_efficiency_Tl(Dp[j])
Tl(Dp) == Factor("Tl", Dp, 0, 0)

\* Tl = 1 of Convolution_matrix_simplified
One == Factor("1", 0, 0, 0)

\* Tc = self.Charging_efficiency_Tc(Dp[j],charge)
Tc(Dp, charge) == Factor("Tc", Dp, 0, charge)

\* Tf = self.Transfer_function_Tf(Dp[j],Voltage[i],charge)
Tf(Dp, voltage, charge) == Factor("Tf", Dp, voltage, charge)

\* Tf * Tc * Tl; a product is determined by its three factors.
Product(tf, tc, tl) == [Tf |-> tf, Tc |-> tc, Tl |-> tl]

\* A plausible slip: range(self.Charge_limit) without the + 1.
K_vec_from_zero(d) == [t \in 1..d.Charge_limit |-> t - 1]

\* k_vec = np.array(range(self.Charge_limit)) + 1
K_vec(d) == [t \in 1..d.Charge_limit |-> (t - 1) + 1]

\* for charge in k_vec: A[i,j] += Tf * Tc * Tl, from position t of k_vec on
RECURSIVE ChargeLoop(_, _, _, _, _, _)
ChargeLoop(entry, k_vec, t, Dp_j, Voltage_i, tl) ==
    IF t > Len(k_vec)
    THEN entry
    ELSE ChargeLoop(Append(entry,
                           Product(Tf(Dp_j, Voltage_i, k_vec[t]), Tc(Dp_j, k_vec[t]), tl)),
                    k_vec, t + 1, Dp_j, Voltage_i, tl)

\* for j in range(n), from column j on, of row i; simplified selects Tl = 1
RECURSIVE ColumnLoop(_, _, _, _, _, _, _)
ColumnLoop(row, j, n, k_vec, Dp, Voltage_i, simplified) ==
    IF j > n
    THEN row
    ELSE ColumnLoop(Append(row, ChargeLoop(<<>>, k_vec, 1, Dp[j], Voltage_i,
                                           IF simplified THEN One ELSE Tl(Dp[j]))),
                    j + 1, n, k_vec, Dp, Voltage_i, simplified)

\* for i in range(n), from row i on
RECURSIVE RowLoop(_, _, _, _, _, _, _)
RowLoop(A, i, n, k_vec, Dp, Voltage, simplified) ==
    IF i > n
    THEN A
    ELSE RowLoop(Append(A, ColumnLoop(<<>>, 1, n, k_vec, Dp, Voltage[i], simplified)),
                 i + 1, n, k_vec, Dp, Voltage, simplified)

\* Voltage[i] is out of range once i reaches len(Voltage): IndexError, raised
\* at the first Transfer_function_Tf call of row len(Voltage), before
\* self.A_mat is assigned.
RaisesIndexError(n, k_vec, Voltage) == n > Len(Voltage) /\ Len(k_vec) > 0

\* The matrix both builders compute when no index is out of range.
BuildMatrix(d, Dp, Voltage, simplified) ==
    RowLoop(<<>>, 1, Len(Dp), K_vec(d), Dp, Voltage, simplified)

Grids(vals) == UNION {[1..n -> vals] : n \in 1..MaxN}

\* What a builder's caller sees: the IndexError, or the matrix returned.
BuildOutcome(d, op, Dp, Voltage, simplified) ==
    IF RaisesIndexError(Len(Dp), K_vec(d), Voltage)
    THEN [NoCall EXCEPT !.op = op, !.arg = <<Dp, Voltage>>, !.raised = "IndexError"]
    ELSE [NoCall EXCEPT !.op = op, !.arg = <<Dp, Voltage>>,
                        !.ret = BuildMatrix(d, Dp, Voltage, simplified)]

\* self.A_mat = A, reached only when nothing was raised
BuildFields(d, Dp, Voltage, simplified) ==
    IF RaisesIndexError(Len(Dp), K_vec(d), Voltage)
    THEN d
    ELSE [d EXCEPT !.A_mat = BuildMatrix(d, Dp, Voltage, simplified)]

\* Both builders are followed from an object that holds no matrix yet: a build
\* reads nothing an earlier build left.
Convolution_matrix(Dp, Voltage) ==
    /\ dma.A_mat = <<>>
    /\ dma' = BuildFields(dma, Dp, Voltage, FALSE)
    /\ call' = BuildOutcome(dma, "Convolution_matrix", Dp, Voltage, FALSE)
    /\ UNCHANGED <<search, history, bis>>

Convolution_matrix_simplified(Dp, Voltage) ==
    /\ dma.A_mat = <<>>
    /\ dma' = BuildFields(dma, Dp, Voltage, TRUE)
    /\ call' = BuildOutcome(dma, "Convolution_matrix_simplified", Dp, Voltage, TRUE)
    /\ UNCHANGED <<search, history, bis>>

InitMatrix ==
    /\ \E limit \in ChargeLimits : dma = ResetFields(Unconfigured, NanoProps(limit))
    /\ call = NoCall
    /\ search = NoSearch
    /\ history = {}
    /\ bis = NoBisect

NextMatrix ==
    \/ \E Dp \in Grids(DpVals), Voltage \in Grids(VoltVals) : Convolution_matrix(Dp, Voltage)
    \/ \E Dp \in Grids(DpVals), Voltage \in Grids(VoltVals) :
          Convolution_matrix_simplified(Dp, Voltage)

SpecMatrix == InitMatrix /\ [][NextMatrix]_vars

\* The sum over charge = 1..Charge_limit of Tl x Tc x Tf, for diameter Dp_j and
\* voltage Voltage_i.
ChargeSum(limit, Dp_j, Voltage_i, tl) ==
    [charge \in 1..limit |->
        [Tl |-> tl, Tc |-> Tc(Dp_j, charge), Tf |-> Tf(Dp_j, Voltage_i, charge)]]

IsBuild == call.op \in {"Convolution_matrix", "Convolution_matrix_simplified"}

\* C5: for grids Dp and Voltage of the same length n, Convolution_matrix returns
\* the n x n matrix whose entry (i, j) is the sum over charge = 1..Charge_limit
\* of Tl(Dp[j]) x Tc(Dp[j], charge) x Tf(Dp[j], Voltage[i], charge), and
\* Convolution_matrix_simplified the same sum with Tl replaced by 1.
C5_MatrixEntriesAreChargeSums ==
    (IsBuild /\ Len(call.arg[1]) = Len(call.arg[2])) =>
        LET Dp == call.arg[1]
            Voltage == call.arg[2]
            n == Len(Dp)
        IN /\ call.raised = "none"
           /\ Len(call.ret) = n
           /\ \A i \in 1..n :
                 /\ Len(call.ret[i]) = n
                 /\ \A j \in 1..n :
                       call.ret[i][j] =
                           ChargeSum(dma.Charge_limit, Dp[j], Voltage[i],
                                     IF call.op = "Convolution_matrix"
                                     THEN Tl(Dp[j]) ELSE One)

\* A full-size build: two distinct diameters, two distinct voltages, two charges.
C5_Witness ==
    /\ call.op = "Convolution_matrix"
    /\ Len(call.arg[1]) = 2 /\ Len(call.arg[2]) = 2
    /\ call.arg[1][1] # call.arg[1][2]
    /\ call.arg[2][1] # call.arg[2][2]
    /\ dma.Charge_limit = 2
    /\ Len(call.ret[2][1]) = 2

\* C3: every public operation taking grids, vectors or a matrix ends with a
\* fatal DimensionMismatch outcome when their sizes are inconsistent, instead
\* of returning a result computed from a truncated or partially used input.
C3_DimensionMismatchAtBoundary ==
    (IsBuild /\ Len(call.arg[1]) # Len(call.arg[2])) =>
        (call.raised = "DimensionMismatch" /\ call.ret = <<>>)

\* --------------------------------------------- Convolution, Deconvolution
\* A matrix is a sequence of rows; its entries are in units of 1/Den.  An
\* array is [dtype, v]: numpy arrays carry their dtype, and np.zeros_like(N)
\* takes N's.  A distribution N holds whole numbers (as int64 or as float64);
\* a response holds multiples of 1/Den.  Arithmetic is exact.

\* the fixed-point denominator of matrix entries and responses
Den == 2

MaxDim == 2

\* matrix entries 0.5 and 1.0
AVals == {1, 2}

NVals == {1, 3}

Scalars == {2, 3}

Matrices == UNION {[1..r -> [1..c -> AVals]] : r \in 1..MaxDim, c \in 1..MaxDim}

Arrays == UNION {[dtype : {"int", "float"}, v : [1..n -> NVals]] : n \in 1..MaxDim}

\* alpha = p/q >= 0
Alphas == {[p |-> 0, q |-> 1], [p |-> 1, q |-> 2], [p |-> 1, q |-> 1]}

Rows(A) == Len(A)

Cols(A) == Len(A[1])

RECURSIVE SumSeq(_)
SumSeq(s) == IF Len(s) = 0 THEN 0 ELSE s[1] + SumSeq(Tail(s))

\* np.sum(A[i,:] * N), with numpy's broadcasting of a length-1 operand
RowTimes(row, v) ==
    IF Len(row) = Len(v) THEN SumSeq([j \in 1..Len(v) |-> row[j] * v[j]])
    ELSE IF Len(v) = 1 THEN SumSeq([j \in 1..Len(row) |-> row[j] * v[1]])
    ELSE SumSeq([j \in 1..Len(v) |-> row[1] * v[j]])

\* R_conv[i] = x: an int64 array truncates the float it is given toward zero.
StoreAs(dtype, x) == IF dtype = "int" THEN TruncDiv(x, Den) * Den ELSE x

\* What Convolution raises: A[i,:] * N does not broadcast (ValueError, at
\* i = 0), or A has fewer rows than N has elements (IndexError).
ConvolutionRaises(A, N) ==
    IF Cols(A) # Len(N.v) /\ Cols(A) # 1 /\ Len(N.v) # 1 THEN "ValueError"
    ELSE IF Rows(A) < Len(N.v) THEN "IndexError"
    ELSE "none"

\* R_conv = np.zeros_like(N); for i in range(len(N)): R_conv[i] = np.sum(A[i,:] * N)
Convolution(A, N) ==
    [dtype |-> N.dtype,
     v |-> [i \in 1..Len(N.v) |-> StoreAs(N.dtype, RowTimes(A[i], N.v))]]

\* c * N and N1 + N2 of numpy arrays of one dtype
Scale(c, N) == [N EXCEPT !.v = [k \in 1..Len(N.v) |-> c * N.v[k]]]

Add(N1, N2) == [N1 EXCEPT !.v = [k \in 1..Len(N1.v) |-> N1.v[k] + N2.v[k]]]

Transpose(A) == [j \in 1..Cols(A) |-> [i \in 1..Rows(A) |-> A[i][j]]]

\* np.dot of two matrices, and of a matrix and a vector
MatMul(X, Y) ==
    [i \in 1..Rows(X) |-> [j \in 1..Cols(Y) |->
        SumSeq([k \in 1..Cols(X) |-> X[i][k] * Y[k][j]])]]

MatVec(X, v) == [i \in 1..Rows(X) |-> SumSeq([k \in 1..Cols(X) |-> X[i][k] * v[k]])]

\* The determinant, by expansion along the first row.
DropAt(s, k) == [t \in 1..(Len(s) - 1) |-> IF t < k THEN s[t] ELSE s[t + 1]]

RECURSIVE Det(_)
Det(M) ==
    IF Len(M) = 1 THEN M[1][1]
    ELSE SumSeq([j \in 1..Len(M) |->
            (IF j % 2 = 1 THEN 1 ELSE -1) * M[1][j]
              * Det([i \in 1..(Len(M) - 1) |-> DropAt(M[i + 1], j)])])

ReplaceCol(M, k, b) ==
    [i \in 1..Len(M) |-> [j \in 1..Len(M) |-> IF j = k THEN b[i] ELSE M[i][j]]]

\* H = np.dot(A.transpose(), A) + alpha*np.identity(A.shape[1]), times q*Den^2
NormalMatrix(A, alpha) ==
    LET G == MatMul(Transpose(A), A)
    IN [i \in 1..Cols(A) |-> [j \in 1..Cols(A) |->
           alpha.q * G[i][j] + (IF i = j THEN alpha.p * Den * Den ELSE 0)]]

\* rhs = np.dot(A.transpose(), R), times q*Den^2
NormalRhs(R, A, alpha) == [i \in 1..Cols(A) |-> alpha.q * MatVec(Transpose(A), R.v)[i]]

\* What Deconvolution raises: np.dot(A.transpose(), R) needs len(R) rows in A
\* (ValueError); np.linalg.solve refuses a singular H (LinAlgError).
DeconvolutionRaises(R, A, alpha) ==
    IF Rows(A) # Len(R.v) THEN "ValueError"
    ELSE IF Det(NormalMatrix(A, alpha)) = 0 THEN "LinAlgError"
    ELSE "none"

\* np.linalg.solve(H, rhs), exactly: x[k] = num[k]/det (Cramer's rule)
Deconvolution(R, A, alpha) ==
    LET H == NormalMatrix(A, alpha)
        rhs == NormalRhs(R, A, alpha)
    IN [num |-> [k \in 1..Cols(A) |-> Det(ReplaceCol(H, k, rhs))], det |-> Det(H)]

\* The arguments a caller of the forward and inverse operators holds: a
\* matrix, two distributions of one length and dtype, a scalar and alpha.
ConvInputs ==
    {in \in [A : Matrices, N1 : Arrays, N2 : Arrays, c : Scalars, alpha : Alphas] :
        in.N2.dtype = in.N1.dtype /\ Len(in.N2.v) = Len(in.N1.v)}

\* Convolution(A, N1)
ConvolutionCall ==
    /\ call.op = "none"
    /\ LET in == call.arg
           err == ConvolutionRaises(in.A, in.N1)
       IN call' = [call EXCEPT !.op = "Convolution", !.raised = err,
                       !.ret = IF err = "none" THEN <<Convolution(in.A, in.N1)>> ELSE <<>>]
    /\ UNCHANGED <<dma, search, history, bis>>

\* The four calls of the linearity test: Convolution of N1, of N2, of c*N1 and
\* of N1+N2, with the same matrix.
ConvolutionLinearityCalls ==
    /\ call.op = "none"
    /\ LET in == call.arg
           err == ConvolutionRaises(in.A, in.N1)
       IN call' = [call EXCEPT !.op = "Convolution x4", !.raised = err,
                       !.ret = IF err = "none"
                               THEN <<Convolution(in.A, in.N1), Convolution(in.A, in.N2),
                                      Convolution(in.A, Scale(in.c, in.N1)),
                                      Convolution(in.A, Add(in.N1, in.N2))>>
                               ELSE <<>>]
    /\ UNCHANGED <<dma, search, history, bis>>

\* Deconvolution(R, A, alpha) of the response R = N1/Den
DeconvolutionCall ==
    /\ call.op = "none"
    /\ LET in == call.arg
           err == DeconvolutionRaises(in.N1, in.A, in.alpha)
       IN call' = [call EXCEPT !.op = "Deconvolution", !.raised = err,
                       !.ret = IF err = "none"
                               THEN <<Deconvolution(in.N1, in.A, in.alpha)>> ELSE <<>>]
    /\ UNCHANGED <<dma, search, history, bis>>

\* Deconvolution(Convolution(A, N1), A, alpha)
RoundTripCall ==
    /\ call.op = "none"
    /\ LET in == call.arg
           err1 == ConvolutionRaises(in.A, in.N1)
           R == Convolution(in.A, in.N1)
           err == IF err1 # "none" THEN err1 ELSE DeconvolutionRaises(R, in.A, in.alpha)
       IN call' = [call EXCEPT !.op = "Deconvolution(Convolution)", !.raised = err,
                       !.ret = IF err = "none"
                               THEN <<R, Deconvolution(R, in.A, in.alpha)>> ELSE <<>>]
    /\ UNCHANGED <<dma, search, history, bis>>

InitConv ==
    /\ dma = ResetFields(Unconfigured, NanoProps(MaxCharge))
    /\ \E in \in ConvInputs : call = [NoCall EXCEPT !.arg = in]
    /\ search = NoSearch
    /\ history = {}
    /\ bis = NoBisect

NextConv ==
    \/ ConvolutionCall
    \/ ConvolutionLinearityCalls
    \/ DeconvolutionCall
    \/ RoundTripCall

SpecConv == InitConv /\ [][NextConv]_vars

IsSquare(A) == Rows(A) = Cols(A)

\* C7: Convolution is linear in the distribution: for a square matrix A, a
\* scalar c and distributions N1, N2 of matching length, Convolution(A, c*N1) =
\* c*Convolution(A, N1) and Convolution(A, N1+N2) = Convolution(A, N1) +
\* Convolution(A, N2), where Convolution(A, N)[i] is the sum over j of
\* A[i,j]*N[j].
C7_ConvolutionLinear ==
    (call.op = "Convolution x4" /\ IsSquare(call.arg.A)
                                /\ Len(call.arg.N1.v) = Rows(call.arg.A)) =>
        /\ call.raised = "none"
        /\ call.ret[3].v = Scale(call.arg.c, call.ret[1]).v
        /\ call.ret[4].v = Add(call.ret[1], call.ret[2]).v
        /\ \A i \in 1..Rows(call.arg.A) :
              call.ret[1].v[i] =
                  SumSeq([j \in 1..Cols(call.arg.A) |->
                             call.arg.A[i][j] * call.arg.N1.v[j]])

RECURSIVE MaxAbs(_)
MaxAbs(s) == IF Len(s) = 0 THEN 0 ELSE Max(Abs(s[1]), MaxAbs(Tail(s)))

\* C8: for a distribution N0 and an invertible square matrix A,
\* Deconvolution(Convolution(A, N0), A, alpha) recovers N0 as alpha tends to 0
\* from above: the result x solves (A^T A + alpha*I) x = A^T R, so every
\* component of x - N0 is at most alpha * n * max|((A^T A)^-1 N0)[j]| in
\* size, which is 0 at alpha = 0 and shrinks linearly with alpha.
C8_RoundTripRecovers ==
    (call.op = "Deconvolution(Convolution)" /\ IsSquare(call.arg.A)
         /\ Len(call.arg.N1.v) = Rows(call.arg.A) /\ Det(call.arg.A) # 0) =>
        /\ call.raised = "none"
        /\ LET A == call.arg.A
               N0 == call.arg.N1.v
               alpha == call.arg.alpha
               x == call.ret[2]
               G == MatMul(Transpose(A), A)
               y == [k \in 1..Len(N0) |-> Det(ReplaceCol(G, k, N0))]
           IN \A k \in 1..Len(N0) :
                 alpha.q * Abs(x.num[k] - N0[k] * x.det) * Abs(Det(G))
                     <= alpha.p * Len(N0) * Den * Den * MaxAbs(y) * Abs(x.det)

\* ------------------------------------------- the regularization search
\* Find_optimum_alpha stores R and A_mat on the object and hands the bound
\* method Error_alpha_parameter to scipy.optimize.minimize (BFGS), which calls
\* it at x0 and then at trial values of its own choosing, and returns a result
\* object with the final x and a success flag.  The optimizer is outside the
\* repository: its choices are inputs.  BFGS stops by itself (its default
\* maxiter); MaxEval bounds the objective evaluations of one search.

MaxEval == 2

\* [[1.0]], [[1.0, 0.5], [0.5, 1.0]] and the singular [[0.5, 0.5], [0.5, 0.5]]
SearchMatrices == {<<<<2>>>>, <<<<2, 1>>, <<1, 2>>>>, <<<<1, 1>>, <<1, 1>>>>}

\* The observed responses of the matrix's size, in units of 1/Den.
SearchInputs ==
    UNION {{[R |-> [dtype |-> "float", v |-> v], A_mat |-> A, x0 |-> a] :
               v \in [1..Rows(A) -> NVals], a \in Alphas} : A \in SearchMatrices}

\* R_conv/self.R - 1 per channel, as <<numerator, denominator>>; error is the
\* sum of their fourth powers.  N_alpha = num/det is a float64 array.
ErrorTerms(R, A, x) ==
    LET N_alpha == Deconvolution(R, A, x)
        R_conv == Convolution(A, [dtype |-> "float", v |-> N_alpha.num])
    IN [k \in 1..Len(R.v) |->
           <<R_conv.v[k] - R.v[k] * N_alpha.det, R.v[k] * N_alpha.det>>]

\* One objective evaluation: what it read from the object and what it returned.
Error_alpha_parameter(d, x) ==
    [x |-> x, R |-> d.R, A |-> d.A_mat, error |-> ErrorTerms(d.R, d.A_mat, x)]

\* A plausible slip: the simulated response kept on the object as self.R.
EvalFields_keeps_R_conv(d, x) ==
    [d EXCEPT !.R = Convolution(d.A_mat, [dtype |-> "float",
                                          v |-> Deconvolution(d.R, d.A_mat, x).num])]

\* The object after an objective evaluation: Error_alpha_parameter,
\* Deconvolution and Convolution assign to no attribute.
EvalFields(d, x) == d

\* self.R = R; self.A_mat = A_mat; then minimize(...) starts.
Find_optimum_alpha(R, A_mat, x0) ==
    /\ search.pc = "idle"
    /\ dma' = [dma EXCEPT !.R = R, !.A_mat = A_mat]
    /\ search' = [search EXCEPT !.pc = "minimize", !.argR = R, !.argA = A_mat,
                                !.x0 = x0, !.evals = <<>>]
    /\ UNCHANGED <<call, history, bis>>

\* minimize calls the objective: first at x0, then at a trial value.
ObjectiveEvaluation(x) ==
    /\ search.pc = "minimize"
    /\ Len(search.evals) < MaxEval
    /\ Len(search.evals) = 0 => x = search.x0
    /\ DeconvolutionRaises(dma.R, dma.A_mat, x) = "none"
    /\ search' = [search EXCEPT !.evals = Append(@, Error_alpha_parameter(dma, x))]
    /\ dma' = EvalFields(dma, x)
    /\ UNCHANGED <<call, history, bis>>

\* np.linalg.solve raises inside the objective: the exception leaves minimize
\* and Find_optimum_alpha.
ObjectiveRaises(x) ==
    /\ search.pc = "minimize"
    /\ Len(search.evals) < MaxEval
    /\ Len(search.evals) = 0 => x = search.x0
    /\ DeconvolutionRaises(dma.R, dma.A_mat, x) # "none"
    /\ search' = NoSearch
    /\ call' = [NoCall EXCEPT !.op = "Find_optimum_alpha",
                              !.raised = DeconvolutionRaises(dma.R, dma.A_mat, x)]
    /\ UNCHANGED <<dma, history, bis>>

\* What minimize prints with 'disp': True.
Displayed(success) ==
    IF success THEN "Optimization terminated successfully."
    ELSE "Warning: Maximum number of iterations has been exceeded."

\* What Find_optimum_alpha hands to its caller: return res.x
Returned(res) == <<res.x>>

\* minimize returns res, converged or not, and Find_optimum_alpha returns.
MinimizeReturns(x, success) ==
    /\ search.pc = "minimize"
    /\ \E k \in 1..Len(search.evals) : search.evals[k].x = x
    /\ LET res == [x |-> x, success |-> success]
       IN /\ search' = [NoSearch EXCEPT !.res = res]
          /\ call' = [NoCall EXCEPT !.op = "Find_optimum_alpha", !.ret = Returned(res),
                                    !.printed = Displayed(success)]
          /\ history' = IF success THEN history ELSE history \cup {Returned(res)}
    /\ UNCHANGED <<dma, bis>>

InitAlpha ==
    /\ dma = ResetFields(Unconfigured, NanoProps(MaxCharge))
    /\ call = NoCall
    /\ search = NoSearch
    /\ history = {}
    /\ bis = NoBisect

NextAlpha ==
    \/ \E in \in SearchInputs : Find_optimum_alpha(in.R, in.A_mat, in.x0)
    \/ \E x \in Alphas : ObjectiveEvaluation(x)
    \/ \E x \in Alphas : ObjectiveRaises(x)
    \/ \E x \in Alphas, success \in BOOLEAN : MinimizeReturns(x, success)

SpecAlpha == InitAlpha /\ [][NextAlpha]_vars

\* C4: Find_optimum_alpha reports non-convergence to its caller together with
\* the last best alpha, so that the caller can distinguish a converged result
\* from a non-converged one: what a converged search hands to its caller is
\* nothing a search that did not converge has handed to its caller.
C4_NonConvergenceReported ==
    (call.op = "Find_optimum_alpha" /\ call.raised = "none" /\ search.res.success) =>
        call.ret \notin history

\* C9: the search context is read-only during a search: from the start of
\* minimize on, self.R and self.A_mat are the R and A_mat passed to
\* Find_optimum_alpha, no objective evaluation changes them, and every
\* objective evaluation of the search read, and was computed from, exactly them.
C9_SearchContextReadOnly ==
    /\ search.pc = "minimize" => dma.R = search.argR /\ dma.A_mat = search.argA
    /\ \A k \in 1..Len(search.evals) :
          /\ search.evals[k].R = search.argR
          /\ search.evals[k].A = search.argA
          /\ search.evals[k].error =
                 ErrorTerms(search.argR, search.argA, search.evals[k].x)

\* A later search, after an earlier one returned, at its second objective
\* evaluation with a trial alpha other than x0.
C9_Witness ==
    /\ search.pc = "minimize"
    /\ Len(search.evals) >= 2
    /\ search.evals[1].x # search.evals[2].x
    /\ call.op = "Find_optimum_alpha"

\* ------------------------------------------------------------- bisect
\* The floats between the arguments low and high are the grid 0..GridMax;
\* func is given by its values on the grid.  (low + high) / 2.0 is exact when
\* it is on the grid and is rounded to one of its two neighbours otherwise,
\* which is what float rounding does once low and high are adjacent.
\*
\* Values of func are floats.  Their unit here is a magnitude whose square is
\* below the smallest positive float (1e-200, say): a value of size 1 is such
\* a small float, a value of size FuncMax an ordinary one.

GridMax == 3

FuncMax == 2

\* The smallest size of a product that is not rounded to zero, in units of
\* the square of the unit of the values.
MinProduct == 2

FuncVals == (-FuncMax)..FuncMax

\* a * b in float64: a product too small for a float underflows to zero.
FloatMul(a, b) == IF Abs(a * b) < MinProduct THEN 0 ELSE a * b

\* for i in range(54)
NumIter == 54

Grid == 0..GridMax

\* def samesign(a, b): return a * b > 0
samesign(a, b) == FloatMul(a, b) > 0

\* midpoint = (low + high) / 2.0
Midpoints(low, high) ==
    IF (low + high) % 2 = 0
    THEN {(low + high) \div 2}
    ELSE {(low + high) \div 2, (low + high) \div 2 + 1}

\* if samesign(func(low), func(midpoint)): low = midpoint  else: high = midpoint
BisectStep(b, midpoint) ==
    IF samesign(b.func[b.low], b.func[midpoint])
    THEN [b EXCEPT !.midpoint = midpoint, !.low = midpoint, !.i = b.i + 1]
    ELSE [b EXCEPT !.midpoint = midpoint, !.high = midpoint, !.i = b.i + 1]

\* assert not samesign(func(low), func(high))
BisectAssert ==
    /\ bis.pc = "called"
    /\ bis' = [bis EXCEPT !.pc = IF samesign(bis.func[bis.low], bis.func[bis.high])
                                 THEN "AssertionError" ELSE "loop"]
    /\ UNCHANGED <<dma, call, search, history>>

BisectIteration ==
    /\ bis.pc = "loop"
    /\ bis.i < NumIter
    /\ \E midpoint \in Midpoints(bis.low, bis.high) : bis' = BisectStep(bis, midpoint)
    /\ UNCHANGED <<dma, call, search, history>>

\* return midpoint
BisectReturn ==
    /\ bis.pc = "loop"
    /\ bis.i = NumIter
    /\ bis' = [bis EXCEPT !.pc = "done"]
    /\ call' = [NoCall EXCEPT !.op = "bisect", !.arg = <<bis.low0, bis.high0>>,
                              !.ret = <<bis.midpoint>>]
    /\ UNCHANGED <<dma, search, history>>

\* bisect(func, low, high) has been called with low < high.
InitBisect ==
    /\ dma = ResetFields(Unconfigured, NanoProps(MaxCharge))
    /\ call = NoCall
    /\ search = NoSearch
    /\ history = {}
    /\ \E func \in [Grid -> FuncVals], low \in Grid, high \in Grid :
          /\ low < high
          /\ bis = [NoBisect EXCEPT !.pc = "called", !.func = func, !.low = low,
                                    !.high = high, !.low0 = low, !.high0 = high]

NextBisect ==
    \/ BisectAssert
    \/ BisectIteration
    \/ BisectReturn

SpecBisect == InitBisect /\ [][NextBisect]_vars

\* Both values positive or both negative.
HaveSameSign(a, b) == (a > 0 /\ b > 0) \/ (a < 0 /\ b < 0)

\* C10: bisect keeps a sign-change bracket: when func(low) and func(high) do
\* not have the same sign at the call (otherwise the assertion fails before any
\* iteration), then after each of the 54 iterations func(low) and func(high)
\* still do not have the same sign, [low, high] is inside the initial interval,
\* and the midpoint returned is an endpoint of the final bracket.
C10_BisectKeepsBracket ==
    /\ bis.pc = "AssertionError" =>
          /\ bis.i = 0
          /\ HaveSameSign(bis.func[bis.low0], bis.func[bis.high0])
    /\ bis.pc \in {"loop", "done"} =>
          /\ ~HaveSameSign(bis.func[bis.low0], bis.func[bis.high0])
          /\ ~HaveSameSign(bis.func[bis.low], bis.func[bis.high])
          /\ bis.low0 <= bis.low /\ bis.low <= bis.high /\ bis.high <= bis.high0
    /\ bis.pc = "done" =>
          /\ bis.i = NumIter
          /\ bis.midpoint \in {bis.low, bis.high}
          /\ call.ret = <<bis.midpoint>>

=============================================================================
